---------------------------- MODULE Spec2Model ----------------------------
(***************************************************************************)
(* A model of grb_shader/catalog.py: Galaxy, LocalVolume and               *)
(* parse_skycoord.                                                         *)
(*                                                                         *)
(* Numbers.  A float is a record [n, d, p] standing for (n/d) * pi^p, with *)
(* d > 0 and gcd(n, d) = 1 for a finite value.  d = 0 marks the IEEE       *)
(* specials: n = 0 is NaN, n = 1 is +inf, n = -1 is -inf.  Arithmetic is   *)
(* exact on the finite values (binary64 rounding and the sign of zero are  *)
(* not modelled) and follows IEEE 754 on the specials, as numpy does.      *)
(*                                                                         *)
(* Strings.  A string is a sequence of one-character strings, so that      *)
(* slicing, splitting and concatenation are computed as Python does.       *)
(*                                                                         *)
(* Angles.  An angle in degrees is one of Angles; 37 stands for atan(3/4)  *)
(* in degrees, whose cosine 4/5 and sine 3/5 are rational.                 *)
(***************************************************************************)
EXTENDS Integers, Sequences, FiniteSets, TLC

VARIABLES
    catalog,   \* the rows of the data file lv_catalog.txt
    vols,      \* the LocalVolume instances, by instance id
    rng,       \* the state of the process-wide numpy random generator
    ret,       \* the last call: its operation, arguments and outcome
    last_seed  \* history: the seed of each instance's last sample_angles

vars == <<catalog, vols, rng, ret, last_seed>>

---------------------------------------------------------------------------
(* Floats *)

Abs(x) == IF x < 0 THEN -x ELSE x

Sgn(x) == IF x < 0 THEN -1 ELSE IF x = 0 THEN 0 ELSE 1

RECURSIVE GCD(_, _)
GCD(m, n) == IF n = 0 THEN m ELSE GCD(n, m % n)

\* the finite value (n/d) * pi^p, normalised; zero carries no power of pi
Q(n, d, p) ==
    LET g == GCD(Abs(n), Abs(d))
        s == Sgn(d)
    IN  IF n = 0 THEN [n |-> 0, d |-> 1, p |-> 0]
        ELSE [n |-> (s * n) \div g, d |-> (s * d) \div g, p |-> p]

R(n, d) == Q(n, d, 0)

NaN == [n |-> 0, d |-> 0, p |-> 0]

Inf(s) == [n |-> s, d |-> 0, p |-> 0]

isnan(x) == x.d = 0 /\ x.n = 0

isinf(x) == x.d = 0 /\ x.n # 0

\* NaN or an infinity
special(x) == x.d = 0

\* x + y
fadd(x, y) ==
    IF special(x) \/ special(y)
    THEN (IF isnan(x) \/ isnan(y) THEN NaN
          ELSE IF isinf(x) THEN (IF isinf(y) /\ y.n # x.n THEN NaN ELSE x)
          ELSE y)
    ELSE IF x.n = 0 THEN y
    ELSE IF y.n = 0 THEN x
    ELSE LET g == GCD(x.d, y.d)
         IN  Q(x.n * (y.d \div g) + y.n * (x.d \div g), (x.d \div g) * y.d,
               IF x.p = y.p THEN x.p ELSE CHOOSE p \in {} : TRUE)

fneg(x) == [n |-> -x.n, d |-> x.d, p |-> x.p]

\* x - y
fsub(x, y) == fadd(x, fneg(y))

\* x * y
fmul(x, y) ==
    IF special(x) \/ special(y)
    THEN (IF isnan(x) \/ isnan(y) \/ x.n = 0 \/ y.n = 0 THEN NaN
          ELSE Inf(Sgn(x.n) * Sgn(y.n)))
    ELSE IF x.n = 0 \/ y.n = 0 THEN [n |-> 0, d |-> 1, p |-> 0]
    ELSE LET g1 == GCD(Abs(x.n), y.d)
             g2 == GCD(Abs(y.n), x.d)
         IN  [n |-> (x.n \div g1) * (y.n \div g2),
              d |-> (x.d \div g2) * (y.d \div g1), p |-> x.p + y.p]

\* x / y as numpy computes it: a zero divisor gives inf or nan, never an error
fdiv(x, y) ==
    IF special(x) \/ special(y)
    THEN (IF isnan(x) \/ isnan(y) THEN NaN
          ELSE IF isinf(x) THEN (IF isinf(y) THEN NaN
                                 ELSE Inf(x.n * (IF y.n < 0 THEN -1 ELSE 1)))
          ELSE [n |-> 0, d |-> 1, p |-> 0])
    ELSE IF y.n = 0 THEN (IF x.n = 0 THEN NaN ELSE Inf(Sgn(x.n)))
    ELSE fmul(x, [n |-> Sgn(y.n) * y.d, d |-> Abs(y.n), p |-> -y.p])

\* x ** 2
fsq(x) ==
    IF special(x) THEN (IF isnan(x) THEN NaN ELSE Inf(1))
    ELSE IF x.n = 0 THEN x
    ELSE [n |-> x.n * x.n, d |-> x.d * x.d, p |-> 2 * x.p]

\* x <= y: false when either side is NaN
fle(x, y) ==
    IF special(x) \/ special(y)
    THEN (IF isnan(x) \/ isnan(y) THEN FALSE
          ELSE IF isinf(x) THEN (x.n < 0 \/ (isinf(y) /\ y.n > 0))
          ELSE y.n > 0)
    ELSE x.n * y.d <= y.n * x.d

\* np.pi
pi == Q(1, 1, 1)

\* np.deg2rad(x)
deg2rad(x) == fmul(x, Q(1, 180, 1))

---------------------------------------------------------------------------
(* Strings *)

Chars(s) == {s[i] : i \in 1..Len(s)}

Min(x, y) == IF x <= y THEN x ELSE y

\* Python's s[lo:hi] and s[lo:]
Slice(s, lo, hi) == SubSeq(s, lo + 1, Min(hi, Len(s)))

SliceFrom(s, lo) == SubSeq(s, lo + 1, Len(s))

\* Python's s.split(c) for a one-character separator c
RECURSIVE split(_, _)
split(s, c) ==
    IF c \notin Chars(s) THEN <<s>>
    ELSE LET i == CHOOSE k \in 1..Len(s) :
                      s[k] = c /\ \A j \in 1..(k - 1) : s[j] # c
         IN  <<SubSeq(s, 1, i - 1)>> \o split(SubSeq(s, i + 1, Len(s)), c)

Digit(c) ==
    CASE c = "0" -> 0 [] c = "1" -> 1 [] c = "2" -> 2 [] c = "3" -> 3
      [] c = "4" -> 4 [] c = "5" -> 5 [] c = "6" -> 6 [] c = "7" -> 7
      [] c = "8" -> 8 [] c = "9" -> 9

RECURSIVE ToNat(_)
ToNat(s) == IF s = <<>> THEN 0 ELSE 10 * ToNat(SubSeq(s, 1, Len(s) - 1)) + Digit(s[Len(s)])

RECURSIVE Pow10(_)
Pow10(k) == IF k = 0 THEN 1 ELSE 10 * Pow10(k - 1)

\* the value of an unsigned decimal numeral "III" or "III.FFF"
ToDecimal(s) ==
    LET parts == split(s, ".")
        frac == IF Len(parts) > 1 THEN parts[2] ELSE <<>>
    IN  fadd(R(ToNat(parts[1]), 1), R(ToNat(frac), Pow10(Len(frac))))

---------------------------------------------------------------------------
(* astropy's SkyCoord, as far as catalog.py uses it: the object built from *)
(* the string "<ra> <dec>", holding the degrees that .ra.deg and .dec.deg  *)
(* give.  The degrees are modelled for well-formed numerals only; what     *)
(* astropy does with any other string is outside this repository, and such *)
(* an object carries no degrees here.                                      *)

Digits == {"0", "1", "2", "3", "4", "5", "6", "7", "8", "9"}

\* a numeral "III" or "III.FFF"
IsNumeral(s) ==
    /\ Len(s) > 0
    /\ s[1] \in Digits
    /\ Chars(s) \subseteq Digits \cup {"."}
    /\ Cardinality({i \in 1..Len(s) : s[i] = "."}) <= 1

\* "HHhMMminSSs"
IsHms(s) ==
    /\ Chars(s) \subseteq Digits \cup {".", "h", "m", "i", "n", "s"}
    /\ \E i, j \in 1..Len(s) :
          /\ i < j /\ s[i] = "h" /\ j + 3 < Len(s)
          /\ SubSeq(s, j, j + 2) = <<"m", "i", "n">> /\ s[Len(s)] = "s"
          /\ IsNumeral(SubSeq(s, 1, i - 1))
          /\ IsNumeral(SubSeq(s, i + 1, j - 1))
          /\ IsNumeral(SubSeq(s, j + 3, Len(s) - 1))

\* "+DD.FFF" or "-DD.FFF"
IsSignedNumeral(s) ==
    Len(s) > 1 /\ s[1] \in {"+", "-"} /\ IsNumeral(SliceFrom(s, 1))

\* the degrees of "HHhMMminSSs" in hour angle: 15 * (HH + MM/60 + SS/3600)
hms_deg(s) ==
    LET hh == split(s, "h")[1]
        mm == split(split(s, "h")[2], "m")[1]
        ss == split(split(s, "n")[2], "s")[1]
    IN  fmul(R(15, 1),
             fadd(fadd(ToDecimal(hh), fdiv(ToDecimal(mm), R(60, 1))),
                  fdiv(ToDecimal(ss), R(3600, 1))))

\* the degrees of "+DD.FFF"
signed_deg(s) ==
    LET v == ToDecimal(SliceFrom(s, 1))
    IN  IF s[1] = "-" THEN fneg(v) ELSE v

SkyCoord(coords, distance, frame, unit) ==
    LET parts == split(coords, " ")
        base == [exc |-> "none", ra_string |-> parts[1], dec_str |-> parts[2],
                 distance |-> distance, distance_unit |-> "Mpc",
                 frame |-> frame, unit |-> unit]
    IN  IF IsHms(parts[1]) /\ IsSignedNumeral(parts[2])
        THEN [f \in DOMAIN base \cup {"ra_deg", "dec_deg"} |->
                 IF f = "ra_deg" THEN hms_deg(parts[1])
                 ELSE IF f = "dec_deg" THEN signed_deg(parts[2])
                 ELSE base[f]]
        ELSE base

\* center.ra.deg
ra_deg(sk) == sk.ra_deg

\* center.dec.deg
dec_deg(sk) == sk.dec_deg

---------------------------------------------------------------------------
(* parse_skycoord *)

\* (mutant) the declination loses its sign
parse_skycoord_unsigned(x, distance) ==
    LET sign == IF "+" \in Chars(x) THEN "+" ELSE "-"
        parts == split(x, sign)
    IN  IF Len(parts) # 2 THEN [exc |-> "ValueError"]
        ELSE LET ra == parts[1]
                 dec == parts[2]
                 ra_string == Slice(ra, 0, 2) \o <<"h">> \o Slice(ra, 2, 4)
                              \o <<"m", "i", "n">> \o SliceFrom(ra, 4) \o <<"s">>
                 dec_str == Slice(dec, 0, 2) \o <<".">> \o SliceFrom(dec, 2)
             IN  SkyCoord(ra_string \o <<" ">> \o dec_str, distance, "icrs",
                          <<"hourangle", "deg">>)

\* parse_skycoord(x, distance): the SkyCoord, or the ValueError of unpacking
\* x.split(sign) into other than two parts
parse_skycoord(x, distance) ==
    LET sign == IF "+" \in Chars(x) THEN "+" ELSE "-"
        parts == split(x, sign)
    IN  IF Len(parts) # 2 THEN [exc |-> "ValueError"]
        ELSE LET ra == parts[1]
                 dec == parts[2]
                 ra_string == Slice(ra, 0, 2) \o <<"h">> \o Slice(ra, 2, 4)
                              \o <<"m", "i", "n">> \o SliceFrom(ra, 4) \o <<"s">>
                 dec_str == <<sign>> \o Slice(dec, 0, 2) \o <<".">> \o SliceFrom(dec, 2)
             IN  SkyCoord(ra_string \o <<" ">> \o dec_str, distance, "icrs",
                          <<"hourangle", "deg">>)

---------------------------------------------------------------------------
(* Galaxy *)

\* the angles, in degrees, that np.random.uniform(0, 360) is drawn from here
Angles == <<0, 37, 90>>

\* np.cos(np.deg2rad(angle))
cosdeg(angle) ==
    CASE angle = 0 -> R(1, 1) [] angle = 37 -> R(4, 5) [] angle = 90 -> R(0, 1)

\* np.sin(np.deg2rad(angle))
sindeg(angle) ==
    CASE angle = 0 -> R(0, 1) [] angle = 37 -> R(3, 5) [] angle = 90 -> R(1, 1)

\* self.a = self.radius / 60
post_init_a(radius) == fdiv(radius, R(60, 1))

\* (mutant) the ratio divides
post_init_b_div(a, ratio) == fdiv(a, ratio)

\* self.b = self.a * self.ratio
post_init_b(a, ratio) == fmul(a, ratio)

\* self.area = np.pi * np.deg2rad(self.a) * np.deg2rad(self.b)
post_init_area(a, b) == fmul(fmul(pi, deg2rad(a)), deg2rad(b))

\* Galaxy(name, distance, center, radius, ratio) with __post_init__ run
Galaxy(name, distance, center, radius, ratio) ==
    LET a == post_init_a(radius)
        b == post_init_b(a, ratio)
    IN  [name |-> name, distance |-> distance, center |-> center,
         radius |-> radius, ratio |-> ratio, angle |-> 0,
         a |-> a, b |-> b, area |-> post_init_area(a, b)]

\* r_norm of contains_point: the point's offset from the center, turned by
\* pi - deg2rad(angle) and scaled by a / 2 and b / 2; cos(pi - t) = -cos(t)
\* and sin(pi - t) = sin(t)
r_norm(g, ra, dec) ==
    LET cos_angle == fneg(cosdeg(g.angle))
        sin_angle == sindeg(g.angle)
        x == fsub(ra, ra_deg(g.center))
        y == fsub(dec, dec_deg(g.center))
        x_t == fsub(fmul(x, cos_angle), fmul(y, sin_angle))
        y_t == fadd(fmul(x, sin_angle), fmul(y, cos_angle))
    IN  fadd(fdiv(fsq(x_t), fsq(fdiv(g.a, R(2, 1)))),
             fdiv(fsq(y_t), fsq(fdiv(g.b, R(2, 1)))))

\* (mutant) if r_norm < 1
r_norm_test_strict(r) == fle(r, R(1, 1)) /\ r # R(1, 1)

\* (mutant) if not r_norm > 1
r_norm_test_not_gt(r) == ~(fle(R(1, 1), r) /\ r # R(1, 1))

\* if r_norm <= 1
r_norm_test(r) == fle(r, R(1, 1))

\* Galaxy.contains_point(ra, dec)
contains_point(g, ra, dec) ==
    IF r_norm_test(r_norm(g, ra, dec)) THEN TRUE ELSE FALSE

---------------------------------------------------------------------------
(* LocalVolume: galaxies is a dict, kept as the sequence of its items      *)
(* [key, val] in insertion order.                                          *)

Keys(d) == {d[i].key : i \in 1..Len(d)}

\* d[k]
DictGet(d, k) == d[CHOOSE i \in 1..Len(d) : d[i].key = k].val

\* d[k] = v: a new key goes last, an old key keeps its place
DictSet(d, k, v) ==
    IF k \in Keys(d)
    THEN [i \in 1..Len(d) |-> IF d[i].key = k THEN [key |-> k, val |-> v] ELSE d[i]]
    ELSE Append(d, [key |-> k, val |-> v])

\* -99.99: the value of lv_catalog.txt that read_csv turns into NaN
NA_VALUE == R(-9999, 100)

na(x) == IF x = NA_VALUE THEN NaN ELSE x

\* pd.read_csv(..., na_values=-99.99, names=[...]): the table of the file
read_csv(file) ==
    [i \in 1..Len(file) |->
        [name |-> file[i].name, skycoord |-> file[i].skycoord,
         radius |-> na(file[i].radius), ratio |-> na(file[i].ratio),
         distance |-> na(file[i].distance)]]

\* the loop of from_lv_catalog over rows i.. of the table: the dict built, or
\* the first row whose skycoord does not parse
RECURSIVE load_rows(_, _, _)
load_rows(table, i, output) ==
    IF i > Len(table) THEN [exc |-> "none", galaxies |-> output]
    ELSE LET row == table[i]
             sk == parse_skycoord(row.skycoord, row.distance)
         IN  IF sk.exc # "none" THEN [exc |-> sk.exc, galaxies |-> <<>>]
             ELSE load_rows(table, i + 1,
                      DictSet(output, row.name,
                              Galaxy(row.name, row.distance, sk, row.radius, row.ratio)))

\* the number of states of the random generator
RngMod == 4

\* the generator's state after np.random.seed(seed)
seed_state(seed) == seed % RngMod

\* the generator's next state, and the value uniform(0, 360) draws in a state
rng_next(s) == (s + 1) % RngMod

uniform(s) == Angles[(s % Len(Angles)) + 1]

RECURSIVE rng_after(_, _)
rng_after(s, k) == IF k = 0 THEN s ELSE rng_after(rng_next(s), k - 1)

\* (mutant) the generator is never reseeded
truthy_never(seed) == FALSE

\* if seed: a seed is None (<<>>) or a number (<<s>>); None and 0 are falsy
truthy(seed) == seed # <<>> /\ seed[1] # 0

\* (mutant) the draw is stored in the wrong field
set_angle_as_a(g, angle) == [g EXCEPT !.angle = angle, !.a = R(angle, 1)]

\* galaxy.angle = ...
set_angle(g, angle) == [g EXCEPT !.angle = angle]

\* the loop of sample_angles from generator state s0
sample_loop(d, s0) ==
    [i \in 1..Len(d) |->
        [key |-> d[i].key, val |-> set_angle(d[i].val, uniform(rng_after(s0, i - 1)))]]

\* (mutant) the scan goes on after a match: the last match wins
RECURSIVE intercepts_last(_, _, _, _)
intercepts_last(d, i, ra, dec) ==
    IF i > Len(d) THEN [found |-> FALSE, galaxy |-> <<>>]
    ELSE LET rest == intercepts_last(d, i + 1, ra, dec)
         IN  IF rest.found THEN rest
             ELSE IF contains_point(d[i].val, ra, dec)
                  THEN [found |-> TRUE, galaxy |-> <<d[i].val>>]
                  ELSE rest

\* the loop of intercepts_galaxy from item i: (found, the galaxy or None)
RECURSIVE intercepts_from(_, _, _, _)
intercepts_from(d, i, ra, dec) ==
    IF i > Len(d) THEN [found |-> FALSE, galaxy |-> <<>>]
    ELSE IF contains_point(d[i].val, ra, dec)
         THEN [found |-> TRUE, galaxy |-> <<d[i].val>>]
         ELSE intercepts_from(d, i + 1, ra, dec)

\* (mutant) no galaxy is skipped: a NaN area poisons the sum
RECURSIVE total_area_unchecked(_, _, _)
total_area_unchecked(d, i, total_area) ==
    IF i > Len(d) THEN total_area
    ELSE total_area_unchecked(d, i + 1, fadd(total_area, d[i].val.area))

\* the loop of percentage_sky_cover from item i
RECURSIVE total_area_from(_, _, _)
total_area_from(d, i, total_area) ==
    IF i > Len(d) THEN total_area
    ELSE total_area_from(d, i + 1,
             IF ~isnan(d[i].val.area) THEN fadd(total_area, d[i].val.area)
             ELSE total_area)

\* LocalVolume.percentage_sky_cover()
sky_cover(d) ==
    LET total_area == total_area_from(d, 1, R(0, 1))
        fraction_sky_cover == fdiv(total_area, fmul(R(4, 1), pi))
    IN  fmul(fraction_sky_cover, R(100, 1))

\* the names LocalVolume's class body and its dataclass field define
ClassAttrs ==
    {"galaxies", "from_lv_catalog", "sample_angles", "intercepts_galaxy",
     "percentage_sky_cover", "__dir__", "__getattr__", "display"}

\* LocalVolume.__dir__(): the class's names, then every galaxy's name
dir_list(d) == (ClassAttrs \ {"galaxies"}) \cup {d[i].val.name : i \in 1..Len(d)}

\* (mutant) an unknown name gives None instead of raising
getattr_hook_none(d, name) ==
    IF name \in Keys(d)
    THEN [exc |-> "none", kind |-> "galaxy", galaxy |-> <<DictGet(d, name)>>]
    ELSE [exc |-> "none", kind |-> "none", galaxy |-> <<>>]

\* LocalVolume.__getattr__(name), which Python calls when the normal lookup
\* finds no attribute; super().__getattr__ does not exist: AttributeError
getattr_hook(d, name) ==
    IF name \in Keys(d)
    THEN [exc |-> "none", kind |-> "galaxy", galaxy |-> <<DictGet(d, name)>>]
    ELSE [exc |-> "AttributeError", kind |-> "none", galaxy |-> <<>>]

\* volume.<name>: a real attribute wins, __getattr__ is the fallback
getattr(d, name) ==
    IF name \in ClassAttrs
    THEN [exc |-> "none", kind |-> "attribute", galaxy |-> <<>>]
    ELSE getattr_hook(d, name)

---------------------------------------------------------------------------
(* The operations *)

VolIds == {1, 2}

galaxies(v) == vols[v].galaxies

\* LocalVolume.from_lv_catalog(): all rows are loaded, or the load raises
from_lv_catalog(v) ==
    /\ ~vols[v].loaded
    /\ LET res == load_rows(read_csv(catalog), 1, <<>>)
       IN  /\ vols' = IF res.exc = "none"
                      THEN [vols EXCEPT ![v] = [loaded |-> TRUE, galaxies |-> res.galaxies]]
                      ELSE vols
           /\ ret' = [op |-> "from_lv_catalog", vol |-> v, exc |-> res.exc]
    /\ UNCHANGED <<catalog, rng, last_seed>>

\* LocalVolume.sample_angles(seed)
sample_angles(v, seed) ==
    /\ vols[v].loaded
    /\ LET s0 == IF truthy(seed) THEN seed_state(seed[1]) ELSE rng
       IN  /\ vols' = [vols EXCEPT ![v].galaxies = sample_loop(galaxies(v), s0)]
           /\ rng' = rng_after(s0, Len(galaxies(v)))
    /\ ret' = [op |-> "sample_angles", vol |-> v, seed |-> seed, exc |-> "none"]
    /\ last_seed' = [last_seed EXCEPT ![v] = seed]
    /\ UNCHANGED catalog

\* galaxy.contains_point(ra, dec) on the galaxy stored under key
call_contains_point(v, key, pt) ==
    /\ vols[v].loaded
    /\ key \in Keys(galaxies(v))
    /\ ret' = [op |-> "contains_point", vol |-> v, key |-> key, ra |-> pt[1],
               dec |-> pt[2], exc |-> "none",
               val |-> contains_point(DictGet(galaxies(v), key), pt[1], pt[2])]
    /\ UNCHANGED <<catalog, vols, rng, last_seed>>

\* LocalVolume.intercepts_galaxy(ra, dec)
intercepts_galaxy(v, pt) ==
    /\ vols[v].loaded
    /\ LET res == intercepts_from(galaxies(v), 1, pt[1], pt[2])
       IN  ret' = [op |-> "intercepts_galaxy", vol |-> v, ra |-> pt[1], dec |-> pt[2],
                   exc |-> "none", found |-> res.found, galaxy |-> res.galaxy]
    /\ UNCHANGED <<catalog, vols, rng, last_seed>>

\* LocalVolume.percentage_sky_cover()
percentage_sky_cover(v) ==
    /\ vols[v].loaded
    /\ ret' = [op |-> "percentage_sky_cover", vol |-> v, exc |-> "none",
               val |-> sky_cover(galaxies(v))]
    /\ UNCHANGED <<catalog, vols, rng, last_seed>>

\* volume.<name>
call_getattr(v, name) ==
    /\ vols[v].loaded
    /\ LET res == getattr(galaxies(v), name)
       IN  ret' = [op |-> "getattr", vol |-> v, name |-> name, exc |-> res.exc,
                   kind |-> res.kind, galaxy |-> res.galaxy]
    /\ UNCHANGED <<catalog, vols, rng, last_seed>>

\* dir(volume)
call_dir(v) ==
    /\ vols[v].loaded
    /\ ret' = [op |-> "dir", vol |-> v, exc |-> "none", val |-> dir_list(galaxies(v))]
    /\ UNCHANGED <<catalog, vols, rng, last_seed>>

\* parse_skycoord(row["skycoord"], row["distance"]) on the first row
call_parse_skycoord ==
    /\ catalog # <<>>
    /\ LET row == read_csv(catalog)[1]
       IN  ret' = [op |-> "parse_skycoord", x |-> row.skycoord,
                   distance |-> row.distance,
                   res |-> parse_skycoord(row.skycoord, row.distance)]
    /\ UNCHANGED <<catalog, vols, rng, last_seed>>

---------------------------------------------------------------------------
(* The inputs: catalog files, query points, seeds, attribute names *)

\* "000000+0000": ra 0, dec +00.00
T00 == <<"0", "0", "0", "0", "0", "0", "+", "0", "0", "0", "0">>

\* "000048+0030": ra 48 s = 0.2 deg, dec +00.30
T23 == <<"0", "0", "0", "0", "4", "8", "+", "0", "0", "3", "0">>

\* "000024-0010": ra 24 s = 0.1 deg, dec -00.10
TNeg == <<"0", "0", "0", "0", "2", "4", "-", "0", "0", "1", "0">>

\* "0000000000": no sign character
TBad == <<"0", "0", "0", "0", "0", "0", "0", "0", "0", "0">>

Row(name, skycoord, radius, ratio, distance) ==
    [name |-> name, skycoord |-> skycoord, radius |-> radius, ratio |-> ratio,
     distance |-> distance]

\* the longest catalog file
MaxRows == 2

\* the largest seed
MaxSeed == 2

\* the longest token of ShortTokens
MaxTokenLen == 3

SeqsUpTo(S, n) == UNION {[1..k -> S] : k \in 0..n}

Seeds == {<<>>} \cup {<<s>> : s \in 0..MaxSeed}

\* where each named galaxy lies
TokenOf(name) == IF name = "M33" THEN T23 ELSE T00

\* files of galaxies of 2 deg that overlap at (0, 0) and (0.2, 0.3), some
\* with a missing ratio
Rows ==
    {Row(name, TokenOf(name), R(120, 1), ratio, R(7, 2)) :
        name \in {"M31", "M33"}, ratio \in {NA_VALUE, R(1, 2)}}

Catalogs == SeqsUpTo(Rows, MaxRows)

Points == {<<R(0, 1), R(0, 1)>>, <<R(1, 5), R(3, 10)>>, <<R(-4, 5), R(-3, 5)>>,
           <<R(6, 5), R(3, 10)>>, <<R(2, 1), R(2, 1)>>}

\* files whose galaxies differ in name and size: a missing ratio, a galaxy of
\* 1 deg, a galaxy of 360 deg; one name is also a method of LocalVolume
AttrRows ==
    {Row(name, TokenOf(name), geom[1], geom[2], R(7, 2)) :
        name \in {"M31", "M33", "display"},
        geom \in {<<R(60, 1), NA_VALUE>>, <<R(60, 1), R(1, 2)>>,
                  <<R(21600, 1), R(1, 1)>>}}

AttrCatalogs == SeqsUpTo(AttrRows, MaxRows)

AttrNames == {"M31", "M33", "display", "NGC1", "sample_angles"}

\* files of one galaxy of every geometry, alone or before a second galaxy,
\* and a file whose token has no sign
GeomRows ==
    {Row("M31", T00, radius, ratio, R(7, 2)) :
        radius \in {NA_VALUE, R(0, 1), R(60, 1)},
        ratio \in {NA_VALUE, R(0, 1), R(1, 2), R(1, 1)}}

GeomCatalogs ==
    {<<r>> : r \in GeomRows}
    \cup {<<r, Row("M33", TNeg, R(120, 1), R(1, 1), R(7, 2))>> :
             r \in {q \in GeomRows : q.radius = R(60, 1)}}
    \cup {<<Row("M31", TBad, R(60, 1), R(1, 1), R(7, 2))>>}

\* points along and across the major axis at each angle of Angles, at the
\* distances b / 2, a / 2 = b, a and beyond, and points far out on both axes
Dirs == {<<R(1, 1), R(0, 1)>>, <<R(0, 1), R(1, 1)>>, <<R(4, 5), R(3, 5)>>,
         <<R(-3, 5), R(4, 5)>>}

Mags == {R(0, 1), R(1, 4), R(1, 2), R(1, 1), R(5, 4)}

GeomPoints ==
    {<<fmul(m, d[1]), fmul(m, d[2])>> : m \in Mags, d \in Dirs}
    \cup {<<R(3, 1), R(3, 1)>>, <<R(3, 5), R(21, 5)>>}

\* files that differ in the names they hold and in their length
SeedRows ==
    {Row("M31", T00, R(60, 1), R(1, 2), R(7, 2)),
     Row("M33", T23, R(60, 1), R(1, 1), R(7, 2))}

SeedCatalogs == SeqsUpTo(SeedRows, MaxRows)

\* tokens RRMMSS(+|-)DDMM[.f], the same without the sign, and short strings
RaParts == {<<"0", "1", "4", "8", "1", "3">>, <<"0", "0", "0", "0", "4", "8">>,
            <<"2", "3", "5", "9", "5", "9">>}

DecParts == {<<"3", "0", "0", "3", "2", "7">>, <<"3", "0", "0", "3">>,
             <<"3", "0", "0", "3", ".", "5">>, <<"0", "0", "3", "0">>}

FormTokens == {ra \o <<sg>> \o dec : ra \in RaParts, sg \in {"+", "-"}, dec \in DecParts}

UnsignedTokens == {ra \o dec : ra \in RaParts, dec \in DecParts}

ShortTokens == SeqsUpTo({"1", "+", "-"}, MaxTokenLen)

Tokens == FormTokens \cup UnsignedTokens \cup ShortTokens

ParseCatalogs ==
    {<<Row("M31", tok, R(60, 1), R(1, 1), dist)>> :
        tok \in Tokens, dist \in {R(7, 2), NA_VALUE}}

---------------------------------------------------------------------------
(* The specifications *)

InitWith(files) ==
    /\ catalog \in files
    /\ vols = [v \in VolIds |-> [loaded |-> FALSE, galaxies |-> <<>>]]
    /\ rng \in 0..(RngMod - 1)
    /\ ret = [op |-> "none", exc |-> "none"]
    /\ last_seed = [v \in VolIds |-> <<>>]

\* one LocalVolume over overlapping galaxies
Init == InitWith(Catalogs)

Next ==
    \/ from_lv_catalog(1)
    \/ \E seed \in Seeds : sample_angles(1, seed)
    \/ \E key \in Keys(galaxies(1)), pt \in Points : call_contains_point(1, key, pt)
    \/ \E pt \in Points : intercepts_galaxy(1, pt)
    \/ percentage_sky_cover(1)

Spec == Init /\ [][Next]_vars

\* one LocalVolume over every geometry of a galaxy
InitGeom == InitWith(GeomCatalogs)

NextGeom ==
    \/ from_lv_catalog(1)
    \/ \E seed \in Seeds : sample_angles(1, seed)
    \/ \E key \in Keys(galaxies(1)), pt \in GeomPoints : call_contains_point(1, key, pt)
    \/ \E pt \in GeomPoints : intercepts_galaxy(1, pt)

SpecGeom == InitGeom /\ [][NextGeom]_vars

\* one LocalVolume, its named access and its sky cover
InitAttr == InitWith(AttrCatalogs)

NextAttr ==
    \/ from_lv_catalog(1)
    \/ percentage_sky_cover(1)
    \/ \E name \in AttrNames : call_getattr(1, name)
    \/ call_dir(1)

SpecAttr == InitAttr /\ [][NextAttr]_vars

\* two LocalVolumes loaded from the same file, sharing the generator
InitSeed == InitWith(SeedCatalogs)

NextSeed ==
    \E v \in VolIds :
        \/ from_lv_catalog(v)
        \/ \E seed \in Seeds : sample_angles(v, seed)

SpecSeed == InitSeed /\ [][NextSeed]_vars

\* parse_skycoord on the token of a one-row file
InitParse == InitWith(ParseCatalogs)

NextParse == call_parse_skycoord

SpecParse == InitParse /\ [][NextParse]_vars

---------------------------------------------------------------------------
(* The claims *)

\* the items of d whose galaxy contains the point
Hits(d, ra, dec) == {i \in 1..Len(d) : contains_point(d[i].val, ra, dec)}

\* C1: intercepts_galaxy(ra, dec) returns (True, g) for the first galaxy g in
\* insertion order that contains the point, whatever later galaxies contain
\* it, and (False, None) exactly when no galaxy contains it, the empty
\* mapping included.
C1_FirstMatch ==
    ret.op = "intercepts_galaxy" =>
        LET d == galaxies(ret.vol)
            hits == Hits(d, ret.ra, ret.dec)
        IN  /\ ret.exc = "none"
            /\ ret.found = (hits # {})
            /\ hits = {} => ret.galaxy = <<>>
            /\ hits # {} =>
                  ret.galaxy = <<d[CHOOSE i \in hits : \A j \in hits : i <= j].val>>

\* a point that two different galaxies contain has been looked up
C1_Witness ==
    /\ ret.op = "intercepts_galaxy"
    /\ Len(galaxies(ret.vol)) = 2
    /\ Hits(galaxies(ret.vol), ret.ra, ret.dec) = {1, 2}
    /\ galaxies(ret.vol)[1].val # galaxies(ret.vol)[2].val
    /\ ret.galaxy = <<galaxies(ret.vol)[1].val>>

\* a galaxy without its angle
Frame(g) == [g EXCEPT !.angle = 0]

\* C9: once a LocalVolume is built, a call changes nothing of it but the
\* angles of its galaxies, and only sample_angles changes those: the keys,
\* their order and every other field of every galaxy stay as they are, so
\* percentage_sky_cover gives the same value before and after.
C9_OnlyAnglesChange ==
    [][\A v \in VolIds : vols[v].loaded =>
          /\ vols'[v].loaded
          /\ Len(vols'[v].galaxies) = Len(vols[v].galaxies)
          /\ \A i \in 1..Len(vols[v].galaxies) :
                /\ vols'[v].galaxies[i].key = vols[v].galaxies[i].key
                /\ Frame(vols'[v].galaxies[i].val) = Frame(vols[v].galaxies[i].val)
          /\ sky_cover(vols'[v].galaxies) = sky_cover(vols[v].galaxies)
          /\ ret'.op # "sample_angles" => vols'[v] = vols[v]]_vars

\* sample_angles has turned a galaxy
C9_Witness ==
    /\ ret.op = "sample_angles"
    /\ \E i \in 1..Len(galaxies(1)) : galaxies(1)[i].val.angle # 0

\* the sum of the areas of the items I of d
RECURSIVE AreaSum(_, _)
AreaSum(d, I) ==
    IF I = {} THEN R(0, 1)
    ELSE LET i == CHOOSE k \in I : TRUE
         IN  fadd(d[i].val.area, AreaSum(d, I \ {i}))

\* C4: percentage_sky_cover() is 100 * S / (4 * pi), S the sum of the areas
\* that are not NaN: a NaN area adds nothing and the result is never NaN, an
\* empty catalog gives 0, one galaxy of area A gives 100 * A / (4 * pi);
\* there is no cap at 100.
C4_SkyCover ==
    ret.op = "percentage_sky_cover" =>
        LET d == galaxies(ret.vol)
            S == AreaSum(d, {i \in 1..Len(d) : ~isnan(d[i].val.area)})
        IN  /\ ret.exc = "none"
            /\ ret.val = fdiv(fmul(R(100, 1), S), fmul(R(4, 1), pi))
            /\ ~isnan(ret.val)
            /\ d = <<>> => ret.val = R(0, 1)
            /\ Len(d) = 1 /\ ~isnan(d[1].val.area) =>
                  ret.val = fdiv(fmul(R(100, 1), d[1].val.area), fmul(R(4, 1), pi))

\* the cover of a galaxy without area and a galaxy of 360 deg: over 100
C4_Witness ==
    /\ ret.op = "percentage_sky_cover"
    /\ \E i, j \in 1..Len(galaxies(ret.vol)) :
          /\ isnan(galaxies(ret.vol)[i].val.area)
          /\ ~isnan(galaxies(ret.vol)[j].val.area)
    /\ ret.val.p = 2 /\ ret.val.n >= 100 * ret.val.d

\* C8 as stated: every key of the mapping, looked up as an attribute, gives
\* the Galaxy stored under it, and dir() lists it; a name that is neither a
\* key nor a real attribute raises AttributeError.
C8_AsStated ==
    /\ ret.op = "getattr" /\ ret.name \in Keys(galaxies(ret.vol)) =>
          /\ ret.exc = "none" /\ ret.kind = "galaxy"
          /\ ret.galaxy = <<DictGet(galaxies(ret.vol), ret.name)>>
    /\ ret.op = "getattr" /\ ret.name \notin Keys(galaxies(ret.vol)) \cup ClassAttrs =>
          ret.exc = "AttributeError" /\ ret.galaxy = <<>>
    /\ ret.op = "dir" => Keys(galaxies(ret.vol)) \subseteq ret.val

\* C8, amended: every key that is not also a real attribute of the
\* LocalVolume, looked up as an attribute, gives the Galaxy stored under it;
\* a key that is a real attribute gives that attribute; dir() lists every
\* key; a name that is neither a key nor a real attribute raises
\* AttributeError and gives no value.
C8_NamedAccess ==
    /\ ret.op = "getattr" /\ ret.name \in Keys(galaxies(ret.vol)) \ ClassAttrs =>
          /\ ret.exc = "none" /\ ret.kind = "galaxy"
          /\ ret.galaxy = <<DictGet(galaxies(ret.vol), ret.name)>>
    /\ ret.op = "getattr" /\ ret.name \in ClassAttrs =>
          ret.exc = "none" /\ ret.kind = "attribute"
    /\ ret.op = "getattr" /\ ret.name \notin Keys(galaxies(ret.vol)) \cup ClassAttrs =>
          ret.exc = "AttributeError" /\ ret.kind = "none" /\ ret.galaxy = <<>>
    /\ ret.op = "dir" => Keys(galaxies(ret.vol)) \subseteq ret.val

\* a name that is no key and no attribute has been looked up in a volume
\* that holds galaxies
C8_Witness ==
    /\ ret.op = "getattr"
    /\ galaxies(ret.vol) # <<>>
    /\ ret.name \notin Keys(galaxies(ret.vol)) \cup ClassAttrs
    /\ ret.exc = "AttributeError"

\* C5: two LocalVolumes that hold the same names in the same order and were
\* each last sampled with the same non-falsy seed have the same angle under
\* every name, whatever calls came before on either.
C5_SeededDeterminism ==
    \A v, w \in VolIds :
        /\ vols[v].loaded /\ vols[w].loaded
        /\ last_seed[v] # <<>> /\ last_seed[v][1] # 0
        /\ last_seed[v] = last_seed[w]
        /\ [i \in 1..Len(galaxies(v)) |-> galaxies(v)[i].key]
             = [i \in 1..Len(galaxies(w)) |-> galaxies(w)[i].key]
        => \A i \in 1..Len(galaxies(v)) :
              galaxies(v)[i].val.angle = galaxies(w)[i].val.angle

\* both volumes hold two galaxies, turned to different angles, and were last
\* sampled with seed 2, volume 2 after volume 1
C5_Witness ==
    /\ vols[1].loaded /\ vols[2].loaded
    /\ Len(galaxies(1)) = 2
    /\ last_seed[1] = <<2>> /\ last_seed[2] = <<2>>
    /\ ret.op = "sample_angles" /\ ret.vol = 2
    /\ galaxies(1)[1].val.angle # galaxies(1)[2].val.angle

\* the point's offset from the center of g, turned by pi - rad(angle): its
\* parts along the a axis (1) and along the b axis (2)
Turned(g, ra, dec) ==
    LET x == fsub(ra, g.center.ra_deg)
        y == fsub(dec, g.center.dec_deg)
        c == fneg(cosdeg(g.angle))
        sn == sindeg(g.angle)
    IN  <<fsub(fmul(x, c), fmul(y, sn)), fadd(fmul(x, sn), fmul(y, c))>>

Positive(x) == x.d # 0 /\ x.n > 0

\* x > y, both finite
Greater(x, y) == x.n * y.d > y.n * x.d

\* the galaxy of the last contains_point call
Called == DictGet(galaxies(ret.vol), ret.key)

\* C2: for finite positive a and b, contains_point(ra, dec) is true exactly
\* when x_t^2 / (a/2)^2 + y_t^2 / (b/2)^2 <= 1, that is when
\* 4 x_t^2 b^2 + 4 y_t^2 a^2 <= a^2 b^2, for the offset (x_t, y_t) turned by
\* pi - rad(angle): equality is inside, and a point farther than a in both
\* turned axes is outside.
C2_Ellipse ==
    ret.op = "contains_point" /\ Positive(Called.a) /\ Positive(Called.b) =>
        LET t == Turned(Called, ret.ra, ret.dec)
            a2 == fsq(Called.a)
            b2 == fsq(Called.b)
            lhs == fadd(fmul(fmul(R(4, 1), fsq(t[1])), b2),
                        fmul(fmul(R(4, 1), fsq(t[2])), a2))
        IN  /\ ret.exc = "none"
            /\ ret.val = ~Greater(lhs, fmul(a2, b2))
            /\ Greater(fsq(t[1]), a2) /\ Greater(fsq(t[2]), a2) => ret.val = FALSE

\* a point on the boundary of a turned ellipse has been found inside
C2_Witness ==
    /\ ret.op = "contains_point" /\ Positive(Called.a) /\ Positive(Called.b)
    /\ Called.angle = 37 /\ Called.a # Called.b
    /\ r_norm(Called, ret.ra, ret.dec) = R(1, 1)
    /\ ret.val = TRUE

\* a or b is zero or NaN
Degenerate(g) == isnan(g.a) \/ isnan(g.b) \/ g.a.n = 0 \/ g.b.n = 0

\* C3: a galaxy whose a or b is zero or NaN contains no point, its own
\* center included, and the test raises nothing; intercepts_galaxy never
\* returns such a galaxy.
C3_DegenerateContainsNothing ==
    /\ ret.op = "contains_point" /\ Degenerate(Called) =>
          ret.exc = "none" /\ ret.val = FALSE
    /\ ret.op = "intercepts_galaxy" =>
          ret.exc = "none" /\ \A i \in 1..Len(ret.galaxy) : ~Degenerate(ret.galaxy[i])

\* the center of a galaxy with a = b = 0 has been tested
C3_Witness ==
    /\ ret.op = "contains_point"
    /\ Called.a = R(0, 1) /\ Called.b = R(0, 1)
    /\ ret.ra = Called.center.ra_deg /\ ret.dec = Called.center.dec_deg
    /\ ret.val = FALSE

AllGalaxies ==
    UNION {{galaxies(v)[i].val : i \in 1..Len(galaxies(v))} : v \in VolIds}

\* C6 as stated: every galaxy has a >= 0, b >= 0 and b <= a, or a and b are
\* both NaN.
C6_AsStated ==
    \A g \in AllGalaxies :
        \/ fle(R(0, 1), g.a) /\ fle(R(0, 1), g.b) /\ fle(g.b, g.a)
        \/ isnan(g.a) /\ isnan(g.b)

\* C6, amended: a galaxy whose radius is finite and >= 0 and whose ratio is
\* finite and in [0, 1] has a >= 0, b >= 0 and b <= a; a galaxy whose radius
\* is NaN has a and b both NaN; a galaxy whose ratio alone is NaN has a
\* finite a = radius / 60 and a NaN b.
C6_AxesInvariant ==
    \A g \in AllGalaxies :
        /\ isnan(g.radius) => isnan(g.a) /\ isnan(g.b)
        /\ ~isnan(g.radius) /\ isnan(g.ratio) =>
              g.a = fdiv(g.radius, R(60, 1)) /\ ~isnan(g.a) /\ isnan(g.b)
        /\ /\ fle(R(0, 1), g.radius) /\ ~isinf(g.radius)
           /\ fle(R(0, 1), g.ratio) /\ fle(g.ratio, R(1, 1))
           => fle(R(0, 1), g.a) /\ fle(R(0, 1), g.b) /\ fle(g.b, g.a)

\* a galaxy with 0 < b <= a and a galaxy without a ratio, after sample_angles
C6_Witness ==
    /\ ret.op = "sample_angles"
    /\ \E g \in AllGalaxies : Positive(g.b) /\ fle(g.b, g.a)
    /\ \E g \in AllGalaxies : ~isnan(g.a) /\ isnan(g.b)

\* C10 as stated: a and b are the semi-axes of the ellipse contains_point
\* accepts: a point at exactly a from the center along the a axis, or at
\* exactly b along the b axis, is inside, and a point farther out on an axis
\* is outside.
C10_AsStated ==
    ret.op = "contains_point" /\ Positive(Called.a) /\ Positive(Called.b) =>
        LET t == Turned(Called, ret.ra, ret.dec)
        IN  /\ t[2].n = 0 /\ fsq(t[1]) = fsq(Called.a) => ret.val = TRUE
            /\ t[1].n = 0 /\ fsq(t[2]) = fsq(Called.b) => ret.val = TRUE
            /\ t[2].n = 0 /\ Greater(fsq(t[1]), fsq(Called.a)) => ret.val = FALSE
            /\ t[1].n = 0 /\ Greater(fsq(t[2]), fsq(Called.b)) => ret.val = FALSE

\* a token RRMMSS(+|-)DDMM[.f]
IsForm(x) ==
    /\ Len(x) >= 11
    /\ x[7] \in {"+", "-"}
    /\ \A i \in (1..11) \ {7} : x[i] \in Digits
    /\ Len(x) > 11 => x[12] = "." /\ \A i \in 13..Len(x) : x[i] \in Digits

\* "014813-300327"
Example == <<"0", "1", "4", "8", "1", "3", "-", "3", "0", "0", "3", "2", "7">>

\* C7: parse_skycoord on a token RRMMSS(+|-)DDMM[.f] gives the right
\* ascension RR h MM min SS s of the part before the sign and the declination
\* sign DD . rest of the part after it, with the given distance in Mpc and
\* the ICRS frame ("014813-300327" gives "01h48min13s" and "-30.0327"); on a
\* token without '+' and '-' it raises.
C7_ParseSkycoord ==
    ret.op = "parse_skycoord" =>
        /\ IsForm(ret.x) =>
              /\ ret.res.exc = "none"
              /\ ret.res.ra_string = <<ret.x[1], ret.x[2], "h", ret.x[3], ret.x[4],
                                       "m", "i", "n", ret.x[5], ret.x[6], "s">>
              /\ ret.res.dec_str = <<ret.x[7], ret.x[8], ret.x[9], ".">>
                                   \o SubSeq(ret.x, 10, Len(ret.x))
              /\ ret.res.distance = ret.distance
              /\ ret.res.distance_unit = "Mpc"
              /\ ret.res.frame = "icrs"
        /\ ret.x = Example =>
              /\ ret.res.ra_string = <<"0", "1", "h", "4", "8", "m", "i", "n", "1", "3", "s">>
              /\ ret.res.dec_str = <<"-", "3", "0", ".", "0", "3", "2", "7">>
        /\ Chars(ret.x) \cap {"+", "-"} = {} => ret.res.exc = "ValueError"

\* "014813-300327" has been parsed with distance 3.5
C7_Witness ==
    /\ ret.op = "parse_skycoord"
    /\ ret.x = Example /\ ret.distance = R(7, 2)
    /\ ret.res.exc = "none" /\ ret.res.distance = R(7, 2)

=============================================================================
